---- MODULE Spec2Model ----
(***************************************************************************)
(* JoseNet (PointMLP-style point-cloud segmentation network),              *)
(* src/model.py and the training loop of src/main.py.                      *)
(*                                                                         *)
(* Specifications over one set of variables:                               *)
(*   SpecGeom     the geometric primitives on small integer point sets:    *)
(*                square_distance, index_points, farthest_point_sample     *)
(*                (one action per loop iteration) and knn_point;           *)
(*   SpecGeomFar  the same on point sets wider than the initial value of   *)
(*                the running distance of farthest_point_sample;           *)
(*   SpecGroup    LocalGrouper.__init__/forward and PreExtraction.forward  *)
(*                on small integer point sets with one feature channel;    *)
(*   SpecShape    PointMLP.__init__ and PointMLP.forward at the level of   *)
(*                tensor shapes (point counts and channel counts);         *)
(*   SpecAlias    PointMLP.forward at the level of tensor storages and     *)
(*                in-place writes;                                         *)
(*   SpecInterp   the interpolation of PointNetFeaturePropagation.forward  *)
(*                by value;                                                *)
(*   SpecPyramid  the encoder loop with the coordinates by value;          *)
(*   SpecTrain    train() of main.py.                                      *)
(* A tensor of one batch element is a sequence; Python's 0-based indices   *)
(* are kept as values and At(s, i) reads position i.                       *)
(***************************************************************************)
EXTENDS Integers, Sequences, FiniteSets, TLC

VARIABLES
    pc,          \* position of the running call
    xyz,         \* [N] of 3-tuples: the point set (one batch element)
    npoint,      \* farthest_point_sample: requested number of samples
    centroids,   \* farthest_point_sample: [npoint] sampled indices
    distance,    \* farthest_point_sample: [N] running minimum distance
    farthest,    \* farthest_point_sample: index chosen for the next slot
    fi,          \* farthest_point_sample: loop variable i
    nsample,     \* knn_point: requested number of neighbours
    new_xyz,     \* knn_point: [S] query points
    sqrdists,    \* square_distance result [S][N]
    group_idx,   \* knn_point result [S][nsample]
    err,         \* "" or the exception that ended the call
    cfg,         \* PointMLP.__init__ arguments
    net,         \* the constructed PointMLP: what its modules were built with
    inp,         \* the forward input: batch, channels, points, training mode
    coords,      \* forward: point count of every coordinate pyramid level
    x_list,      \* forward: [ch, n] of every feature pyramid level
    indexs,      \* forward: length of every sampling index
    preds,       \* forward: [n, ch] of pred5, pred4, .. in creation order
    feats,       \* forward: [n, ch] of feat5, feat4, .. in creation order
    xdec,        \* forward: [ch, n, level] of the running decoder tensor x5, x4, ..
    output,      \* forward: shape of the returned log-probabilities
    grouper,     \* LocalGrouper: the fields __init__ set
    points,      \* LocalGrouper.forward: [N][D] input features
    fps_idx,     \* LocalGrouper.forward: [S] sampling index
    idx,         \* LocalGrouper.forward: [S][K] neighbour indices
    new_points,  \* LocalGrouper.forward: [S][K][D'] returned grouped tensor
    gargs,       \* LocalGrouper.__init__: the arguments it was called with
    pre,         \* PreExtraction: its configuration
    pre_out,     \* PreExtraction.forward: [S][out_channels] result
    heap,        \* tensor storages: the number of in-place writes each has had
    fp,          \* PointNetFeaturePropagation.forward: its arguments and locals
    loop         \* train: the locals of the epoch loop and the files written

geomVars == <<xyz, npoint, centroids, distance, farthest, fi, nsample,
              new_xyz, sqrdists, group_idx>>
groupVars == <<grouper, gargs, points, fps_idx, idx, new_points, pre, pre_out>>
shapeVars == <<cfg, net, inp, coords, x_list, indexs, preds, feats, xdec, output>>
extVars == <<heap, fp, loop>>

(***************************************************************************)
(* Bounds of the model.                                                    *)
(***************************************************************************)
MaxN == 3
MaxCoord == 1

Coord == 0..MaxCoord
PointDomain == {<<x, y, 0>> : x \in Coord, y \in 0..1}
PointSets == UNION {[1..n -> PointDomain] : n \in 1..MaxN}

(***************************************************************************)
(* Helpers for 0-based tensors.                                            *)
(***************************************************************************)
At(s, i) == s[i + 1]
Range0(n) == 0..(n - 1)
Min2(a, b) == IF a <= b THEN a ELSE b
Distinct(s) == \A i, j \in 1..Len(s) : i # j => s[i] # s[j]
\* a tensor computed entry by entry, held as a sequence of its entries
Eval(s) == s \o <<>>

RECURSIVE SumSeq(_)
SumSeq(s) == IF s = <<>> THEN 0 ELSE Head(s) + SumSeq(Tail(s))

Dot(a, b) == SumSeq([c \in 1..Len(a) |-> a[c] * b[c]])
SqNorm(a) == SumSeq([c \in 1..Len(a) |-> a[c] * a[c]])

(***************************************************************************)
(* square_distance: -2 * src.dst^T + sum(src^2) + sum(dst^2).              *)
(***************************************************************************)
square_distance_asym(src, dst) ==
    [n \in 1..Len(src) |-> [m \in 1..Len(dst) |->
        (-2 * Dot(src[n], dst[m])) + SqNorm(src[n])]]

square_distance(src, dst) ==
    [n \in 1..Len(src) |-> [m \in 1..Len(dst) |->
        (-2 * Dot(src[n], dst[m])) + SqNorm(src[n]) + SqNorm(dst[m])]]

(***************************************************************************)
(* index_points: new_points = points[batch_indices, idx, :]                *)
(***************************************************************************)
index_points_next(data, ix) ==
    Eval([j \in 1..Len(ix) |-> At(data, (ix[j] + 1) % Len(data))])

index_points(data, ix) == Eval([j \in 1..Len(ix) |-> At(data, ix[j])])

(***************************************************************************)
(* torch.max(distance, -1)[1] and torch.topk(.., largest=False,            *)
(* sorted=False): which of several equal entries is taken, and the order   *)
(* of the k results, are left to the library.                              *)
(***************************************************************************)
ArgMax(row) == {i \in Range0(Len(row)) :
                   \A j \in Range0(Len(row)) : At(row, j) <= At(row, i)}

ArgMinAmong(row, S) == {i \in S : \A j \in S : At(row, i) <= At(row, j)}
ArgMaxAmong(row, S) == {i \in S : \A j \in S : At(row, i) >= At(row, j)}

RECURSIVE SelectSmallest(_, _, _)
SelectSmallest(row, k, chosen) ==
    IF k = 0 THEN {chosen}
    ELSE UNION {SelectSmallest(row, k - 1, chosen \cup {i}) :
                  i \in ArgMinAmong(row, Range0(Len(row)) \ chosen)}

RECURSIVE SelectLargest(_, _, _)
SelectLargest(row, k, chosen) ==
    IF k = 0 THEN {chosen}
    ELSE UNION {SelectLargest(row, k - 1, chosen \cup {i}) :
                  i \in ArgMaxAmong(row, Range0(Len(row)) \ chosen)}

Orderings(S) == {s \in [1..Cardinality(S) -> S] : Distinct(s)}

\* the results torch.topk(row, k, largest=False, sorted=False) can return
TopKSmallest(row, k) == UNION {Orderings(S) : S \in SelectSmallest(row, k, {})}
TopKLargest(row, k) == UNION {Orderings(S) : S \in SelectLargest(row, k, {})}

(***************************************************************************)
(* knn_point(nsample, xyz, new_xyz): the results it can return, one row    *)
(* per query point.  torch.topk raises when nsample exceeds the row.       *)
(***************************************************************************)
KnnRaises(k, n) == k > n

knn_point_largest(k, ref, query) ==
    LET d == square_distance(query, ref)
    IN  {g \in [1..Len(query) -> UNION {TopKLargest(d[s], k) : s \in 1..Len(query)}] :
            \A s \in 1..Len(query) : g[s] \in TopKLargest(d[s], k)}

knn_point(k, ref, query) ==
    LET d == square_distance(query, ref)
    IN  {g \in [1..Len(query) -> UNION {TopKSmallest(d[s], k) : s \in 1..Len(query)}] :
            \A s \in 1..Len(query) : g[s] \in TopKSmallest(d[s], k)}

(***************************************************************************)
(* farthest_point_sample, lines 57-67.                                     *)
(***************************************************************************)
\* torch.ones(B, N) * 1e10, line 58, scaled by 1/10 to fit the 32-bit integers
\* of the checker: above every squared distance of PointDomain, below the
\* squared distances between the points of FarPointDomain (coordinates that
\* stand for points more than 1e5 units apart)
InitDistance == 1000000000

PointDist(p, q) == SumSeq([c \in 1..3 |-> (p[c] - q[c]) * (p[c] - q[c])])

FpsDistance_overwrite(pts, dist, f) ==
    [n \in 1..Len(pts) |-> PointDist(pts[n], At(pts, f))]

\* lines 62-65: the running minimum after the centroid at index f is added
FpsDistance(pts, dist, f) ==
    [n \in 1..Len(pts) |-> Min2(dist[n], PointDist(pts[n], At(pts, f)))]

\* the variables of the geometric primitives, unused by the other specifications
GeomIdle ==
    /\ xyz = <<>>
    /\ npoint = 0
    /\ centroids = <<>>
    /\ distance = <<>>
    /\ farthest = 0
    /\ fi = 0
    /\ nsample = 0
    /\ new_xyz = <<>>
    /\ sqrdists = <<>>
    /\ group_idx = <<>>

\* the variables of LocalGrouper and PreExtraction, unused by the other specifications
GroupIdle ==
    /\ grouper = <<>>
    /\ gargs = <<>>
    /\ points = <<>>
    /\ fps_idx = <<>>
    /\ idx = <<>>
    /\ new_points = <<>>
    /\ pre = <<>>
    /\ pre_out = <<>>

\* the variables of the later specifications, unused by the earlier ones
ExtIdle ==
    /\ heap = <<>>
    /\ fp = <<>>
    /\ loop = <<>>

\* the variables of PointMLP, unused by the other specifications
ShapeIdle ==
    /\ cfg = <<>>
    /\ net = <<>>
    /\ inp = <<>>
    /\ coords = <<>>
    /\ x_list = <<>>
    /\ indexs = <<>>
    /\ preds = <<>>
    /\ feats = <<>>
    /\ xdec = <<>>
    /\ output = <<>>

(***************************************************************************)
(* SpecGeom: the geometric primitives applied to a bounded point set.      *)
(***************************************************************************)
NpointChoices == 0..(MaxN + 1)
NsampleChoices == 1..(MaxN + 1)

InitGeom ==
    /\ pc = "idle"
    /\ xyz \in PointSets
    /\ npoint = 0
    /\ centroids = <<>>
    /\ distance = <<>>
    /\ farthest = 0
    /\ fi = 0
    /\ nsample = 0
    /\ new_xyz = <<>>
    /\ sqrdists = <<>>
    /\ group_idx = <<>>
    /\ err = ""
    /\ ShapeIdle
    /\ GroupIdle
    /\ ExtIdle

\* lines 55-60: centroids = zeros, distance = 1e10, farthest = randint(0, N)
FarthestPointSampleCall(k) ==
    /\ pc = "idle"
    /\ npoint' = k
    /\ centroids' = [i \in 1..k |-> 0]
    /\ distance' = [n \in 1..Len(xyz) |-> InitDistance]
    /\ farthest' \in Range0(Len(xyz))
    /\ fi' = 0
    /\ pc' = "fps"
    /\ UNCHANGED <<xyz, nsample, new_xyz, sqrdists, group_idx, err>>
    /\ UNCHANGED <<shapeVars, extVars, groupVars>>

\* lines 61-66: one iteration of the loop
FpsIterate ==
    /\ pc = "fps"
    /\ fi < npoint
    /\ centroids' = [centroids EXCEPT ![fi + 1] = farthest]
    /\ distance' = FpsDistance(xyz, distance, farthest)
    /\ farthest' \in ArgMax(distance')
    /\ fi' = fi + 1
    /\ UNCHANGED <<pc, xyz, npoint, nsample, new_xyz, sqrdists, group_idx, err>>
    /\ UNCHANGED <<shapeVars, extVars, groupVars>>

\* line 67: return centroids
FpsReturn ==
    /\ pc = "fps"
    /\ fi = npoint
    /\ pc' = "fps_done"
    /\ UNCHANGED <<geomVars, err>>
    /\ UNCHANGED <<shapeVars, extVars, groupVars>>

\* lines 102-104, for one query point q
KnnPointCall(k, q) ==
    /\ pc = "idle"
    /\ nsample' = k
    /\ new_xyz' = <<q>>
    /\ sqrdists' = square_distance(<<q>>, xyz)
    /\ IF KnnRaises(k, Len(xyz))
       THEN /\ pc' = "raised"
            /\ err' = "topk: selected index k out of range"
            /\ group_idx' = <<>>
       ELSE /\ pc' = "knn_done"
            /\ err' = ""
            /\ group_idx' \in knn_point(k, xyz, <<q>>)
    /\ UNCHANGED <<xyz, npoint, centroids, distance, farthest, fi>>
    /\ UNCHANGED <<shapeVars, extVars, groupVars>>

\* lines 20-25 on (A, A)
SquareDistanceCall ==
    /\ pc = "idle"
    /\ sqrdists' = square_distance(xyz, xyz)
    /\ pc' = "sqd_done"
    /\ UNCHANGED <<xyz, npoint, centroids, distance, farthest, fi, nsample,
                   new_xyz, group_idx, err>>
    /\ UNCHANGED <<shapeVars, extVars, groupVars>>

NextGeom ==
    \/ (pc = "idle" /\ \E k \in NpointChoices : FarthestPointSampleCall(k))
    \/ FpsIterate
    \/ FpsReturn
    \/ (pc = "idle" /\ \E k \in NsampleChoices, q \in PointDomain : KnnPointCall(k, q))
    \/ SquareDistanceCall

vars == <<pc, err, geomVars, shapeVars, groupVars, extVars>>

SpecGeom == InitGeom /\ [][NextGeom]_vars

(***************************************************************************)
(* C3.  farthest_point_sample: distinct indices within [0, N).             *)
(***************************************************************************)
InRangeIdx(s, n) == \A j \in 1..Len(s) : s[j] \in Range0(n)
NoCoincident(pts) == \A i, j \in 1..Len(pts) : i # j => PointDist(pts[i], pts[j]) # 0

\* C3 as stated: every finished call of farthest_point_sample returned npoint
\* pairwise distinct indices, all in [0, N), whatever the point set.
C3_Original ==
    pc = "fps_done" =>
        /\ Len(centroids) = npoint
        /\ InRangeIdx(centroids, Len(xyz))
        /\ Distinct(centroids)

\* C3 amended: every finished call returned npoint indices in [0, N); they are
\* pairwise distinct when npoint <= N and no two points of the set coincide.
C3_FpsDistinctInRange ==
    pc = "fps_done" =>
        /\ Len(centroids) = npoint
        /\ InRangeIdx(centroids, Len(xyz))
        /\ (npoint <= Len(xyz) /\ NoCoincident(xyz)) => Distinct(centroids)

C3_Witness ==
    /\ pc = "fps_done"
    /\ npoint = Len(xyz)
    /\ npoint >= 3
    /\ NoCoincident(xyz)
    /\ Distinct(centroids)

(***************************************************************************)
(* C4.  knn_point: k distinct valid indices, none beaten by an outsider.   *)
(***************************************************************************)
\* C4: a finished knn_point call with k <= |R| returned, for the query, exactly
\* k pairwise distinct indices in [0, |R|), and no reference point outside the
\* returned set is strictly closer to the query than a point inside it.
C4_KnnTopK ==
    pc = "knn_done" =>
        \A s \in 1..Len(new_xyz) :
            /\ Len(group_idx[s]) = nsample
            /\ InRangeIdx(group_idx[s], Len(xyz))
            /\ Distinct(group_idx[s])
            /\ LET inside == {group_idx[s][j] : j \in 1..nsample}
               IN  \A o \in Range0(Len(xyz)) \ inside : \A i \in inside :
                      PointDist(new_xyz[s], At(xyz, o)) >= PointDist(new_xyz[s], At(xyz, i))

C4_Witness ==
    /\ pc = "knn_done"
    /\ nsample = 2
    /\ Len(xyz) = 3
    /\ \E o \in Range0(3) : \A j \in 1..2 :
          /\ group_idx[1][j] # o
          /\ PointDist(new_xyz[1], At(xyz, o)) > PointDist(new_xyz[1], At(xyz, group_idx[1][j]))

(***************************************************************************)
(* C9.  square_distance(A, A): symmetric, zero diagonal.                   *)
(***************************************************************************)
\* C9: the matrix square_distance(A, A) has entry [i][j] equal to entry [j][i]
\* and every diagonal entry zero (integer coordinates).
C9_SquareDistanceSymmetric ==
    pc = "sqd_done" =>
        /\ Len(sqrdists) = Len(xyz)
        /\ \A i, j \in 1..Len(xyz) : sqrdists[i][j] = sqrdists[j][i]
        /\ \A i \in 1..Len(xyz) : sqrdists[i][i] = 0

C9_Witness ==
    /\ pc = "sqd_done"
    /\ Len(xyz) = 3
    /\ \E i, j \in 1..3 : sqrdists[i][j] > 1

(***************************************************************************)
(* PointMLP.__init__, lines 326-402, at the level of shapes.               *)
(***************************************************************************)
MaxStages == 5
StageLens == 2..MaxStages
Repeat(v, n) == [i \in 1..n |-> v]

\* num_classes, points and the per-stage values the model enumerates
ClassChoices == {5, 13}
PointsChoices == {1024, 4096}
NeighborChoices == {16, 32}
ReducerChoices == {2, 4}
\* the last entries of dim_expansion and reducers: as the others, or 1
LastExpansionChoices == {1, 2}
LastReducerChoices(r) == {1, r}

Config(c, p, k, r, e, rl, ld, lpre, lpos, lk, lr, lde) ==
    [num_classes |-> c, points |-> p, embed_dim |-> 64, gmp_dim |-> 64,
     dim_expansion |-> Append(Repeat(2, ld - 1), e), pre_blocks |-> Repeat(2, lpre),
     pos_blocks |-> Repeat(2, lpos), k_neighbors |-> Repeat(k, lk),
     reducers |-> Append(Repeat(r, lr - 1), rl),
     de_dims |-> <<1024, 512, 256, 128, 128>>,
     de_blocks |-> Repeat(2, lde)]

\* line 265: the last layer of every prediction head; line 371: self.predict
PredChannels == 13
\* line 370: self.feature = ConvBNReLU1D(1024, 256), .., ConvBNReLU1D(64, 32)
FeatureIn == 1024
FeatureOut == 32

\* lines 337-338: the assertion covers five of the per-stage lists
StageAssert(c) ==
    /\ Len(c.pre_blocks) = Len(c.k_neighbors)
    /\ Len(c.k_neighbors) = Len(c.reducers)
    /\ Len(c.reducers) = Len(c.pos_blocks)
    /\ Len(c.pos_blocks) = Len(c.dim_expansion)

\* lines 343, 352: anchor_points after stage i (1-based), anchor_points // reduce
RECURSIVE AnchorPoints(_, _)
AnchorPoints(c, i) ==
    IF i = 0 THEN c.points ELSE AnchorPoints(c, i - 1) \div c.reducers[i]

\* lines 342-366: en_dims[i] (0-based), last_channel * dim_expansion[i]
RECURSIVE EnDim(_, _)
EnDim(c, i) ==
    IF i = 0 THEN c.embed_dim ELSE EnDim(c, i - 1) * c.dim_expansion[i]

EnDims(c) == [i \in 1..(Len(c.pre_blocks) + 1) |-> EnDim(c, i - 1)]

\* lines 383-386: en_dims[3] and de_blocks[0..3] are read whatever the stage count
DecoderIndexError(c) == Len(EnDims(c)) < 4 \/ Len(c.de_blocks) < 4 \/ Len(c.de_dims) < 5

\* the modules __init__ builds, each with the sizes it was built for
BuildNet(c) ==
    LET n == Len(c.pre_blocks)
        en == EnDims(c)
    IN  [stages |-> n,
         points |-> c.points,
         groups |-> [i \in 1..n |-> AnchorPoints(c, i)],
         kneighbors |-> [i \in 1..n |-> c.k_neighbors[i]],
         grouper_channel |-> [i \in 1..n |-> en[i]],
         pre_in |-> [i \in 1..n |-> 3 + 2 * en[i]],
         pre_out |-> [i \in 1..n |-> en[i + 1]],
         en_dims |-> en,
         fp_in |-> [j \in 1..4 |-> c.de_dims[j] + At(en, 4 - j) + c.num_classes],
         fp_out |-> [j \in 1..4 |-> c.de_dims[j + 1]],
         gmp_in |-> en,
         gmp_end_in |-> c.gmp_dim * Len(en),
         gmp_dim |-> c.gmp_dim,
         cls_in |-> c.gmp_dim + c.de_dims[Len(c.de_dims)],
         num_classes |-> c.num_classes]

InitShape ==
    /\ pc = "new"
    /\ err = ""
    /\ GeomIdle
    /\ ShapeIdle
    /\ GroupIdle
    /\ ExtIdle

\* PointMLP.__init__
Construct(c) ==
    /\ pc = "new"
    /\ cfg' = c
    /\ IF ~StageAssert(c)
       THEN /\ pc' = "ctor_raised"
            /\ err' = "AssertionError"
            /\ net' = <<>>
       ELSE IF DecoderIndexError(c)
       THEN /\ pc' = "ctor_raised"
            /\ err' = "IndexError"
            /\ net' = <<>>
       ELSE /\ pc' = "constructed"
            /\ err' = ""
            /\ net' = BuildNet(c)
    /\ UNCHANGED <<inp, coords, x_list, indexs, preds, feats, xdec, output, geomVars, groupVars, extVars>>

(***************************************************************************)
(* PointMLP.forward, lines 404-456, at the level of shapes.  Every step    *)
(* either produces the shapes the code produces or raises what the called  *)
(* torch operation raises on those shapes.                                 *)
(***************************************************************************)
BatchChoices == {1, 2}
InputPoints == {256, 1024, 4096}
InputChannels == 6
Last(s) == s[Len(s)]
Reverse(s) == [i \in 1..Len(s) |-> s[Len(s) + 1 - i]]

\* nn.BatchNorm1d in training mode refuses a single value per channel
BatchNormRaises(training, b, l) == training /\ b * l = 1
\* nn.Conv1d(in_channels, ..) refuses an input with other channels
ConvRaises(in_channels, ch) == in_channels # ch

Raise(e) ==
    /\ pc' = "raised"
    /\ err' = e
    /\ UNCHANGED <<cfg, net, inp, coords, x_list, indexs, preds, feats, xdec, output>>

\* lines 405-411: coord = x[:, 0:3, :], x = self.embedding(x)
ForwardCall(b, n, training) ==
    /\ pc = "constructed"
    /\ inp' = [batch |-> b, channels |-> InputChannels, points |-> n, training |-> training]
    /\ IF ConvRaises(6, InputChannels) \/ BatchNormRaises(training, b, n)
       THEN /\ pc' = "raised"
            /\ err' = "embedding"
            /\ UNCHANGED <<coords, x_list>>
       ELSE /\ pc' = "enc"
            /\ err' = ""
            /\ coords' = <<n>>
            /\ x_list' = <<[ch |-> cfg.embed_dim, n |-> n]>>
    /\ UNCHANGED <<cfg, net, indexs, preds, feats, xdec, output, geomVars, groupVars, extVars>>

\* LocalGrouper.forward, lines 131-159, for stage i (1-based) on N points with
\* D feature channels: "" or the exception
GrouperRaises(i, N, D) ==
    IF N = 0 THEN "randint: empty range"
    ELSE IF KnnRaises(net.kneighbors[i], N) THEN "topk: selected index k out of range"
    ELSE IF D # net.grouper_channel[i] THEN "affine: channel mismatch"
    ELSE ""

\* line 133: S = self.groups, the number of centroids stage i returns
GrouperCentroids(i, N) == net.groups[i]

\* lines 414-421: one encoder stage
EncoderStage ==
    /\ pc = "enc"
    /\ Len(indexs) < net.stages
    /\ LET i == Len(indexs) + 1
           N == Last(coords)
           D == Last(x_list).ch
           S == GrouperCentroids(i, N)
           K == net.kneighbors[i]
           g == GrouperRaises(i, N, D)
       IN  IF g # "" THEN Raise(g)
           ELSE IF ConvRaises(net.pre_in[i], 2 * D + 3) THEN Raise("pre_blocks: channel mismatch")
           ELSE IF BatchNormRaises(inp.training, inp.batch * S, K)
                   \/ BatchNormRaises(inp.training, inp.batch, S)
                THEN Raise("batch_norm: one value per channel")
           ELSE /\ coords' = Append(coords, S)
                /\ x_list' = Append(x_list, [ch |-> net.pre_out[i], n |-> S])
                /\ indexs' = Append(indexs, S)
                /\ UNCHANGED <<pc, err, cfg, net, inp, preds, feats, xdec, output>>
    /\ UNCHANGED <<geomVars, groupVars, extVars>>

\* lines 426-434: x5 = x_list[-1], feat5, pred5
DecoderHead ==
    /\ pc = "enc"
    /\ Len(indexs) = net.stages
    /\ LET x5 == Last(x_list)
       IN  IF ConvRaises(FeatureIn, x5.ch) THEN Raise("feature: channel mismatch")
           ELSE IF BatchNormRaises(inp.training, inp.batch, x5.n)
                THEN Raise("batch_norm: one value per channel")
           ELSE /\ pc' = "fp"
                /\ xdec' = [ch |-> x5.ch, n |-> x5.n, level |-> Len(x_list) - 1]
                /\ feats' = <<[n |-> x5.n, ch |-> FeatureOut]>>
                /\ preds' = <<[n |-> x5.n, ch |-> PredChannels]>>
                /\ UNCHANGED <<err, cfg, net, inp, coords, x_list, indexs, output>>
    /\ UNCHANGED <<geomVars, groupVars, extVars>>

\* lines 296, 298: index_points(points2, idx) with idx in [0, n2), n2 the number
\* of coarse coordinates, on a points2 of s2 points: with s2 < n2 an index can
\* fall outside points2, depending on the coordinates
IndexPointsMayRaise(n2, s2) == s2 < n2

\* PointNetFeaturePropagation.forward, lines 281-321, on n1 fine points with c1
\* channels, n2 coarse points with c2 channels and a last_pred of cp channels,
\* by a module whose fuse layer was built for fuse_in channels
FeaturePropagationRaises(n1, n2, c1, c2, cp, fuse_in) ==
    IF n1 > 0 /\ n2 < 3 THEN "view: shape invalid for input size"
    ELSE IF ConvRaises(fuse_in, c1 + c2 + cp) THEN "fuse: channel mismatch"
    ELSE IF BatchNormRaises(inp.training, inp.batch, n1) THEN "batch_norm: one value per channel"
    ELSE ""

\* lines 435-438: fp4, fp3, fp2, fp1 in this order; the j-th call (j = 1 for fp4)
\* reads coords[4 - j], coords[5 - j], x_list[4 - j]
FeaturePropagation ==
    /\ pc = "fp"
    /\ Len(preds) <= 4
    /\ LET j == Len(preds)
           fine == 4 - j
           coarse == 5 - j
       IN  IF Len(coords) <= coarse \/ Len(x_list) <= fine THEN Raise("IndexError")
           ELSE LET n1 == At(coords, fine)
                    n2 == At(coords, coarse)
                    points1 == At(x_list, fine)
                    last_pred == Last(preds)
                    r == FeaturePropagationRaises(n1, n2, points1.ch, xdec.ch,
                                                  last_pred.ch, net.fp_in[j])
                IN  \/ /\ IndexPointsMayRaise(n2, xdec.n)
                        /\ Raise("index_points: index out of range")
                    \/ IF r # "" THEN Raise(r)
                       ELSE /\ xdec' = [ch |-> net.fp_out[j], n |-> n1, level |-> fine]
                            /\ feats' = Append(feats, [n |-> n1, ch |-> FeatureOut])
                            /\ preds' = Append(preds, [n |-> n1, ch |-> PredChannels])
                            /\ UNCHANGED <<pc, err, cfg, net, inp, coords, x_list, indexs, output>>
    /\ UNCHANGED <<geomVars, groupVars, extVars>>

\* lines 440-456: feats, preds, the global context, the classifier, the return
Classify ==
    /\ pc = "fp"
    /\ Len(preds) = 5
    /\ IF \E i \in 1..Len(x_list) : ConvRaises(net.gmp_in[i], x_list[i].ch)
       THEN Raise("gmp_map: channel mismatch")
       ELSE IF ConvRaises(net.gmp_end_in, net.gmp_dim * Len(x_list))
       THEN Raise("gmp_map_end: channel mismatch")
       ELSE IF BatchNormRaises(inp.training, inp.batch, 1)
       THEN Raise("batch_norm: one value per channel")
       ELSE IF ConvRaises(net.cls_in, xdec.ch + net.gmp_dim)
       THEN Raise("classifier: channel mismatch")
       ELSE /\ pc' = "returned"
            /\ output' = [out |-> <<inp.batch, xdec.n, net.num_classes>>,
                          coords |-> coords,
                          feats |-> Reverse(feats),
                          preds |-> Reverse(preds),
                          indexs |-> indexs]
            /\ UNCHANGED <<err, cfg, net, inp, coords, x_list, indexs, preds, feats, xdec>>
    /\ UNCHANGED <<geomVars, groupVars, extVars>>

NextShape ==
    \/ (pc = "new" /\ \E c \in ClassChoices, p \in PointsChoices, k \in NeighborChoices,
                           r \in ReducerChoices, e \in LastExpansionChoices,
                           ld \in StageLens, lpre \in StageLens,
                           lpos \in StageLens, lk \in StageLens, lr \in StageLens,
                           lde \in StageLens : \E rl \in LastReducerChoices(r) :
                               Construct(Config(c, p, k, r, e, rl, ld, lpre, lpos, lk, lr, lde)))
    \/ (pc = "constructed" /\
           \E b \in BatchChoices, n \in InputPoints, t \in BOOLEAN : ForwardCall(b, n, t))
    \/ EncoderStage
    \/ DecoderHead
    \/ FeaturePropagation
    \/ Classify

SpecShape == InitShape /\ [][NextShape]_vars

(***************************************************************************)
(* Claims about PointMLP.__init__ and PointMLP.forward (SpecShape).        *)
(***************************************************************************)
ForwardEnded == pc \in {"raised", "returned"}
\* lines 383-386: the decoder is fp4, fp3, fp2, fp1
DecoderStages == 4

DefaultStages(c) ==
    /\ c.reducers = <<4, 4, 4, 4>>
    /\ c.k_neighbors = <<32, 32, 32, 32>>
    /\ c.dim_expansion = <<2, 2, 2, 2>>
    /\ Len(c.pre_blocks) = 4
    /\ Len(c.pos_blocks) = 4
    /\ Len(c.de_blocks) = 4
    /\ c.num_classes = 13

\* C1: a forward pass of a model built with the default 4-stage configuration
\* (reductions [4,4,4,4], neighbours [32,32,32,32]) on an input of batch 2 and
\* 1024 points completes and returns an output of shape (2, 1024, 13), the
\* coordinate pyramid [1024, 256, 64, 16, 4] and auxiliary predictions of 13
\* channels with the point count of their level.
C1_DefaultForward ==
    (ForwardEnded /\ DefaultStages(cfg) /\ inp.batch = 2 /\ inp.points = 1024) =>
        /\ pc = "returned"
        /\ output.out = <<2, 1024, 13>>
        /\ output.coords = <<1024, 256, 64, 16, 4>>
        /\ Len(output.preds) = 5
        /\ \A i \in 1..5 : output.preds[i] = [n |-> output.coords[i], ch |-> 13]

\* C2: every Local Grouper invocation on N points at a stage with reduction
\* factor r returned exactly N div r centroids and a sampling index of that
\* length, N being the number of points passed in at run time.
C2_CentroidsAreNDivR ==
    pc \in {"enc", "fp", "returned"} =>
        \A i \in 1..Len(indexs) :
            /\ coords[i + 1] = coords[i] \div cfg.reducers[i]
            /\ indexs[i] = coords[i] \div cfg.reducers[i]

\* C5: a model is constructed only if every per-stage list (channel expansion,
\* pre/pos block depths, neighbour counts, reduction factors, decoder block
\* depths) has the length of the stage count, and that stage count is the number
\* of encoder stages and of decoder stages the model runs.
C5_StageListsAgree ==
    pc = "constructed" =>
        /\ \A l \in {cfg.dim_expansion, cfg.pre_blocks, cfg.pos_blocks,
                     cfg.k_neighbors, cfg.reducers, cfg.de_blocks} :
              Len(l) = net.stages
        /\ net.stages = DecoderStages

\* C7: a forward pass on an input whose point count differs from the point
\* count the model was configured with never completes.
C7_MismatchFails ==
    pc = "returned" => inp.points = cfg.points

\* C8: every forward pass returns log-probabilities of shape (batch, points, c),
\* coordinate, feature and auxiliary-prediction pyramids of stage_count + 1
\* levels and a sampling-index pyramid of stage_count levels, for every class
\* count c.  Stated for the passes whose encoder ran all four stages of a
\* 4-stage model in evaluation mode, which the neighbour-count, stage-count and
\* batch-norm failures do not end first.
C8_FiveValuesAnyClassCount ==
    (ForwardEnded /\ net.stages = 4 /\ Len(indexs) = 4 /\ ~inp.training) =>
        /\ pc = "returned"
        /\ output.out = <<inp.batch, inp.points, cfg.num_classes>>
        /\ Len(output.coords) = net.stages + 1
        /\ Len(output.feats) = net.stages + 1
        /\ Len(output.preds) = net.stages + 1
        /\ Len(output.indexs) = net.stages

(***************************************************************************)
(* Real-valued tensors are kept in fixed point: an integer v stands for    *)
(* v / FixedUnit.  Division and square root round down.                    *)
(***************************************************************************)
FixedUnit == 8
Fx(v) == v * FixedUnit
FxVec(vec) == Eval([c \in 1..Len(vec) |-> Fx(vec[c])])
FxMul(a, b) == (a * b) \div FixedUnit
FxDiv(a, b) == (a * FixedUnit) \div b
ISqrt(n) == CHOOSE r \in 0..n : r * r <= n /\ n < (r + 1) * (r + 1)

\* all entries of a [S][K][C] tensor, row-major (reshape(B, -1))
RECURSIVE Concat(_)
Concat(ss) == IF ss = <<>> THEN <<>> ELSE Head(ss) \o Concat(Tail(ss))
Flatten3(t) == Concat([s \in 1..Len(t) |-> Concat(t[s])])

\* the value standing for NaN, outside the range of every fixed-point value
NaN == -1000000

\* torch.mean over a sequence of fixed-point values
FxMean(vals) == SumSeq(vals) \div Len(vals)
\* torch.std (unbiased) of fixed-point values; NaN with fewer than two values
FxStd(vals) ==
    IF Len(vals) < 2 THEN NaN
    ELSE LET m == FxMean(vals)
             ss == SumSeq([i \in 1..Len(vals) |-> (vals[i] - m) * (vals[i] - m)])
         IN  ISqrt(ss \div (Len(vals) - 1))

\* line 155: the 1e-5 added to std, one unit of the fixed-point grid
NormEps == 1

(***************************************************************************)
(* LocalGrouper.__init__, lines 108-129.                                   *)
(***************************************************************************)
None == "<None>"
NormalizeArgs == {None, "center", "Anchor", "batch"}
\* str.lower() on the arguments the model enumerates
Lower(str) == CASE str = "Anchor" -> "anchor"
                [] OTHER -> str

LocalGrouperInit_keepmode(channel, groups, kneighbors, use_xyz, normalize) ==
    LET lowered == IF normalize # None THEN Lower(normalize) ELSE None
        add_channel == IF use_xyz THEN 3 ELSE 0
    IN  [groups |-> groups, kneighbors |-> kneighbors, use_xyz |-> use_xyz,
         normalize |-> lowered,
         warned |-> lowered \notin {"center", "anchor"},
         affine_alpha |-> IF lowered # None THEN [c \in 1..(channel + add_channel) |-> Fx(1)] ELSE None,
         affine_beta |-> IF lowered # None THEN [c \in 1..(channel + add_channel) |-> Fx(0)] ELSE None]

\* the fields of the constructed module; warned: the message of line 124 was printed
LocalGrouperInit(channel, groups, kneighbors, use_xyz, normalize) ==
    LET lowered == IF normalize # None THEN Lower(normalize) ELSE None
        recognized == lowered \in {"center", "anchor"}
        mode == IF recognized THEN lowered ELSE None
        add_channel == IF use_xyz THEN 3 ELSE 0
    IN  [groups |-> groups, kneighbors |-> kneighbors, use_xyz |-> use_xyz,
         normalize |-> mode,
         warned |-> ~recognized,
         affine_alpha |-> IF mode # None THEN [c \in 1..(channel + add_channel) |-> Fx(1)] ELSE None,
         affine_beta |-> IF mode # None THEN [c \in 1..(channel + add_channel) |-> Fx(0)] ELSE None]

(***************************************************************************)
(* farthest_point_sample as a function: every index sequence the loop of   *)
(* lines 61-66 can return for some initial index and some resolution of    *)
(* equal maxima.                                                           *)
(***************************************************************************)
RECURSIVE FpsRuns(_, _, _, _, _)
FpsRuns(pts, k, dist, f, acc) ==
    IF Len(acc) = k THEN {acc}
    ELSE LET d2 == FpsDistance(pts, dist, f)
         IN  UNION {FpsRuns(pts, k, d2, f2, Append(acc, f)) : f2 \in ArgMax(d2)}

farthest_point_sample(pts, k) ==
    UNION {FpsRuns(pts, k, [n \in 1..Len(pts) |-> InitDistance], f0, <<>>) :
             f0 \in Range0(Len(pts))}

(***************************************************************************)
(* LocalGrouper.forward, lines 131-159, given the sampling index and the   *)
(* neighbour indices its calls returned.                                   *)
(***************************************************************************)
GroupedRaw_firstxyz(g, pts, feat, nidx) ==
    Eval([s \in 1..Len(nidx) |-> Eval([k \in 1..Len(nidx[s]) |->
        IF g.use_xyz
        THEN At(feat, nidx[s][k]) \o At(pts, nidx[s][1])
        ELSE At(feat, nidx[s][k])])])

\* lines 144-147: grouped_points before normalisation, [S][K][D(+3)]
GroupedRaw(g, pts, feat, nidx) ==
    Eval([s \in 1..Len(nidx) |-> Eval([k \in 1..Len(nidx[s]) |->
        IF g.use_xyz
        THEN At(feat, nidx[s][k]) \o At(pts, nidx[s][k])
        ELSE At(feat, nidx[s][k])])])

\* lines 149-153: mean, [S][D(+3)]
GroupMean(g, raw, new_feat, new_pts) ==
    Eval([s \in 1..Len(raw) |->
        IF g.normalize = "center"
        THEN Eval([c \in 1..Len(raw[s][1]) |-> FxMean([k \in 1..Len(raw[s]) |-> Fx(raw[s][k][c])])])
        ELSE FxVec(IF g.use_xyz THEN new_feat[s] \o new_pts[s] ELSE new_feat[s])])

\* lines 154-156: (grouped_points - mean) / (std + 1e-5), then the affine map
GroupNormalize(g, raw, mean) ==
    LET centered == Eval([s \in 1..Len(raw) |-> Eval([k \in 1..Len(raw[s]) |->
                        Eval([c \in 1..Len(raw[s][k]) |-> Fx(raw[s][k][c]) - mean[s][c]])])])
        std == FxStd(Flatten3(centered))
    IN  Eval([s \in 1..Len(raw) |-> Eval([k \in 1..Len(raw[s]) |-> Eval([c \in 1..Len(raw[s][k]) |->
            IF std = NaN THEN NaN
            ELSE FxMul(g.affine_alpha[c], FxDiv(centered[s][k][c], std + NormEps))
                 + g.affine_beta[c]])])])

\* line 148: a mode that is neither None, center nor anchor leaves mean unbound
GrouperModeRaises(g) == g.normalize \notin {None, "center", "anchor"}

\* the returned (new_xyz, new_points, fps_idx)
GrouperForward(g, pts, feat, fidx, nidx) ==
    LET new_pts == index_points(pts, fidx)
        new_feat == index_points(feat, fidx)
        raw == GroupedRaw(g, pts, feat, nidx)
        grouped == IF g.normalize = None
                   THEN [s \in 1..Len(raw) |-> [k \in 1..Len(raw[s]) |-> FxVec(raw[s][k])]]
                   ELSE GroupNormalize(g, raw, GroupMean(g, raw, new_feat, new_pts))
    IN  [new_xyz |-> new_pts,
         new_points |-> [s \in 1..Len(raw) |-> [k \in 1..Len(raw[s]) |->
                            grouped[s][k] \o FxVec(new_feat[s])]],
         fps_idx |-> fidx]

(***************************************************************************)
(* ConvBNReLU1D, ConvBNReLURes1D and PreExtraction.forward, lines 162-231, *)
(* on a [S][K][C] tensor: S centroids (the batch of the 1-d layers), K     *)
(* neighbours (their length), C channels.                                  *)
(***************************************************************************)
\* parameter values standing for the weights of layer l: W[o][c] and bias[o]
Weight(seed, l, o, c) == ((seed + l + o + c) % 3) - 1
Bias(seed, l, o) == Fx((seed + l + o) % 2)

HasNaN(vec) == \E c \in 1..Len(vec) : vec[c] = NaN

\* nn.Conv1d with kernel_size=1: every position on its own
Conv1d(t, seed, l, out) ==
    Eval([s \in 1..Len(t) |-> Eval([k \in 1..Len(t[s]) |-> Eval([o \in 1..out |->
        IF HasNaN(t[s][k]) THEN NaN
        ELSE SumSeq([c \in 1..Len(t[s][k]) |-> Weight(seed, l, o, c) * t[s][k][c]])
             + Bias(seed, l, o)])])])

\* the 1e-5 added to the variance, one unit of its fixed-point grid
BnEps == 1

\* nn.BatchNorm1d with weight 1, bias 0: batch statistics over all S * K
\* positions of a channel in training mode, running mean 0 and variance 1 otherwise
BatchNorm1d(t, training) ==
    LET C == Len(t[1][1])
        stats == Eval([c \in 1..C |->
            LET vals == Concat([s \in 1..Len(t) |-> [k \in 1..Len(t[s]) |-> t[s][k][c]]])
                nan == training /\ HasNaN(vals)
                mean == IF training /\ ~nan THEN FxMean(vals) ELSE 0
                var == IF training /\ ~nan
                       THEN SumSeq([i \in 1..Len(vals) |->
                               (vals[i] - mean) * (vals[i] - mean)]) \div Len(vals)
                       ELSE Fx(1) * Fx(1)
            IN  [nan |-> nan, mean |-> mean, den |-> ISqrt(var + BnEps)]])
    IN  Eval([s \in 1..Len(t) |-> Eval([k \in 1..Len(t[s]) |-> Eval([c \in 1..C |->
            IF stats[c].nan \/ t[s][k][c] = NaN THEN NaN
            ELSE FxDiv(t[s][k][c] - stats[c].mean, stats[c].den)])])])

Relu(t) ==
    Eval([s \in 1..Len(t) |-> Eval([k \in 1..Len(t[s]) |-> Eval([c \in 1..Len(t[s][k]) |->
        IF t[s][k][c] = NaN THEN NaN ELSE IF t[s][k][c] > 0 THEN t[s][k][c] ELSE 0])])])

AddT(a, b) ==
    Eval([s \in 1..Len(a) |-> Eval([k \in 1..Len(a[s]) |-> Eval([c \in 1..Len(a[s][k]) |->
        IF a[s][k][c] = NaN \/ b[s][k][c] = NaN THEN NaN ELSE a[s][k][c] + b[s][k][c]])])])

\* ConvBNReLU1D.forward
ConvBNReLU1D(t, p, l, out) == Relu(BatchNorm1d(Conv1d(t, p.seed, l, out), p.training))

\* ConvBNReLURes1D.forward, groups = 1, res_expansion = 1: layers l and l + 1
ConvBNReLURes1D(t, p, l) ==
    LET C == Len(t[1][1])
        net1 == ConvBNReLU1D(t, p, l, C)
        net2 == BatchNorm1d(Conv1d(net1, p.seed, l + 1, C), p.training)
    IN  Relu(AddT(net2, t))

RECURSIVE Operation(_, _, _)
Operation(t, p, b) ==
    IF b = 0 THEN t ELSE ConvBNReLURes1D(Operation(t, p, b - 1), p, 2 * b)

MaxOf(vals) == IF \E i \in 1..Len(vals) : vals[i] = NaN THEN NaN
               ELSE CHOOSE m \in {vals[i] : i \in 1..Len(vals)} :
                        \A i \in 1..Len(vals) : vals[i] <= m

AdaptiveMaxPool_first(t) ==
    [s \in 1..Len(t) |-> [c \in 1..Len(t[s][1]) |-> t[s][1][c]]]

\* F.adaptive_max_pool1d(x, 1): the maximum over the K neighbours
AdaptiveMaxPool(t) ==
    Eval([s \in 1..Len(t) |-> Eval([c \in 1..Len(t[s][1]) |->
        MaxOf([k \in 1..Len(t[s]) |-> t[s][k][c]])])])

\* PreExtraction.forward: transfer, operation, max-pool; [S][out_channels]
PreExtraction(p, t) ==
    AdaptiveMaxPool(Operation(ConvBNReLU1D(t, p, 1, p.out_channels), p, p.blocks))

(***************************************************************************)
(* SpecGroup: one LocalGrouper, constructed, run on a bounded point set    *)
(* with one feature channel, and its output run through a PreExtraction.   *)
(***************************************************************************)
MaxGroupN == 2
GroupPointDomain == {<<0, 0, 0>>, <<1, 0, 0>>, <<0, 1, 0>>}
FeatureDomain == {<<0>>, <<1>>}
GroupsChoices == {1, 2}
KneighborsChoices == {1, 2}
UseXyzChoices == {TRUE}
PreConfigs == {[out_channels |-> 2, blocks |-> 1, training |-> TRUE, seed |-> 0],
               [out_channels |-> 2, blocks |-> 1, training |-> FALSE, seed |-> 1]}

\* The initial index of farthest_point_sample is random and equal distances are
\* resolved arbitrarily, so every input is a renumbering of one whose points,
\* each with its feature, are listed in a fixed order.
PointRank(p, f) == 8 * p[1] + 4 * p[2] + 2 * p[3] + f[1]
Ordered(pts, feat) ==
    \A i \in 1..(Len(pts) - 1) : PointRank(pts[i], feat[i]) <= PointRank(pts[i + 1], feat[i + 1])
GroupInputs ==
    UNION {{in \in [xyz : [1..n -> GroupPointDomain], points : [1..n -> FeatureDomain]] :
              Ordered(in.xyz, in.points)} : n \in 1..MaxGroupN}

InitGroup ==
    /\ pc = "g_new"
    /\ err = ""
    /\ \E in \in GroupInputs : xyz = in.xyz /\ points = in.points
    /\ npoint = 0
    /\ centroids = <<>>
    /\ distance = <<>>
    /\ farthest = 0
    /\ fi = 0
    /\ nsample = 0
    /\ new_xyz = <<>>
    /\ sqrdists = <<>>
    /\ group_idx = <<>>
    /\ grouper = <<>>
    /\ gargs = <<>>
    /\ fps_idx = <<>>
    /\ idx = <<>>
    /\ new_points = <<>>
    /\ pre = <<>>
    /\ pre_out = <<>>
    /\ ShapeIdle
    /\ ExtIdle

\* LocalGrouper.__init__
GrouperConstruct(groups, kneighbors, use_xyz, normalize) ==
    /\ pc = "g_new"
    /\ gargs' = [channel |-> Len(points[1]), groups |-> groups, kneighbors |-> kneighbors,
                 use_xyz |-> use_xyz, normalize |-> normalize]
    /\ grouper' = LocalGrouperInit(Len(points[1]), groups, kneighbors, use_xyz, normalize)
    /\ pc' = "g_built"
    /\ UNCHANGED <<err, geomVars, shapeVars, extVars, points, fps_idx, idx, new_points, pre, pre_out>>

\* LocalGrouper.forward
GrouperForwardCall ==
    /\ pc = "g_built"
    /\ \E fidx \in farthest_point_sample(xyz, grouper.groups) :
          /\ fps_idx' = fidx
          /\ new_xyz' = index_points(xyz, fidx)
          /\ IF KnnRaises(grouper.kneighbors, Len(xyz))
             THEN /\ pc' = "g_raised"
                  /\ err' = "topk: selected index k out of range"
                  /\ UNCHANGED <<idx, new_points>>
             ELSE \E nidx \in knn_point(grouper.kneighbors, xyz, index_points(xyz, fidx)) :
                    /\ idx' = nidx
                    /\ IF GrouperModeRaises(grouper)
                       THEN /\ pc' = "g_raised"
                            /\ err' = "UnboundLocalError: mean"
                            /\ UNCHANGED new_points
                       ELSE /\ pc' = "g_done"
                            /\ err' = ""
                            /\ new_points' =
                                 GrouperForward(grouper, xyz, points, fidx, nidx).new_points
    /\ UNCHANGED <<xyz, npoint, centroids, distance, farthest, fi, nsample, sqrdists,
                   group_idx, shapeVars, extVars, grouper, gargs, points, pre, pre_out>>

\* PreExtraction.forward on the grouped tensor
PreExtractionForward(p) ==
    /\ pc = "g_done"
    /\ pre' = p
    /\ IF BatchNormRaises(p.training, Len(new_points), Len(new_points[1]))
       THEN /\ pc' = "pre_raised"
            /\ err' = "batch_norm: one value per channel"
            /\ UNCHANGED pre_out
       ELSE /\ pc' = "pre_done"
            /\ err' = ""
            /\ pre_out' = PreExtraction(p, new_points)
    /\ UNCHANGED <<geomVars, shapeVars, extVars, grouper, gargs, points, fps_idx, idx, new_points>>

NextGroup ==
    \/ (pc = "g_new" /\ \E g \in GroupsChoices, k \in KneighborsChoices, u \in UseXyzChoices,
                             m \in NormalizeArgs : GrouperConstruct(g, k, u, m))
    \/ GrouperForwardCall
    \/ (pc = "g_done" /\ \E p \in PreConfigs : PreExtractionForward(p))

SpecGroup == InitGroup /\ [][NextGroup]_vars

(***************************************************************************)
(* Properties of LocalGrouper and PreExtraction, checked under SpecGroup.   *)
(***************************************************************************)
GrouperBuilt == pc # "g_new"
GrouperReturned == pc \in {"g_done", "pre_done", "pre_raised"}

\* the normalize argument is neither center nor anchor, in any letter case
UnrecognizedMode ==
    gargs.normalize = None \/ Lower(gargs.normalize) \notin {"center", "anchor"}

\* lines 144-147 and 158 alone: the gathered features (and coordinates) of each
\* neighbour followed by the feature of its centroid, nothing subtracted,
\* divided or scaled
UnNormalized ==
    [s \in 1..Len(idx) |-> [k \in 1..Len(idx[s]) |->
        FxVec(IF gargs.use_xyz
              THEN At(points, idx[s][k]) \o At(xyz, idx[s][k])
              ELSE At(points, idx[s][k]))
        \o FxVec(At(points, fps_idx[s]))]]

\* C6: constructing a LocalGrouper with a normalization mode other than center
\* or anchor does not raise: the warning is printed, the grouper is built with
\* normalization disabled, no forward call fails because of the mode, and every
\* forward call that returns leaves the grouped features un-normalized.
C6_UnrecognizedModeDisabled ==
    (GrouperBuilt /\ UnrecognizedMode) =>
        /\ grouper.warned
        /\ grouper.normalize = None
        /\ grouper.affine_alpha = None
        /\ (pc = "g_raised" => KnnRaises(grouper.kneighbors, Len(xyz)))
        /\ (GrouperReturned => new_points = UnNormalized)

\* a forward call of a grouper built with the mode "batch" has returned two
\* different neighbours for a centroid
C6_Witness ==
    /\ pc = "g_done"
    /\ gargs.normalize = "batch"
    /\ Len(idx[1]) = 2
    /\ new_points[1][1] # new_points[1][2]

\* the neighbour indices with the neighbours of centroid s listed as perm
Reorder(s, perm) == [idx EXCEPT ![s] = perm]
NeighborOrders(s) == Orderings({idx[s][k] : k \in 1..Len(idx[s])}) \ {idx[s]}

\* C10: the per-centroid feature PreExtraction produces does not change when
\* the neighbours of one centroid are listed in another order: for every
\* centroid and every permutation of the neighbour indices knn_point returned
\* for it, the grouper normalization, the shared layers and the max-pool over
\* the neighbours give the same result.
C10_NeighborOrderInvariant ==
    pc = "pre_done" =>
        \A s \in 1..Len(idx) : \A perm \in NeighborOrders(s) :
            PreExtraction(pre, GrouperForward(grouper, xyz, points, fps_idx,
                                              Reorder(s, perm)).new_points) = pre_out

\* PreExtraction has run on a normalized neighbourhood of two neighbours whose
\* features differ after the shared layers, so that their order is visible
\* before the max-pool
C10_Witness ==
    /\ pc = "pre_done"
    /\ grouper.normalize # None
    /\ Len(idx[1]) = 2
    /\ idx[1][1] # idx[1][2]
    /\ ~HasNaN(pre_out[1])
    /\ LET t == Operation(ConvBNReLU1D(new_points, pre, 1, pre.out_channels), pre, pre.blocks)
       IN  t[1][1] # t[1][2]

(***************************************************************************)
(* Further properties of PointMLP.forward, checked under SpecShape.        *)
(***************************************************************************)
\* the encoder stage (1-based) that runs next, while the encoder loop is running
EncoderRunning == pc = "enc" /\ Len(indexs) < net.stages
NextStage == Len(indexs) + 1

\* C11: in every forward pass of every constructed model, the point set handed
\* to an encoder stage's LocalGrouper has at least as many points as the
\* neighbour count configured for that stage, so knn_point is never asked for
\* more neighbours than there are points.
C11_NeighborsWithinPoints ==
    EncoderRunning => net.kneighbors[NextStage] <= Last(coords)

\* a Feature Propagation stage is about to be called: the level whose coordinates
\* it is handed as the coarse set (lines 435-438)
DecoderRunning == pc = "fp" /\ Len(preds) <= 4 /\ Len(coords) > 5 - Len(preds)
CoarseLevel == 5 - Len(preds)

\* C12: the decoder runs one Feature Propagation stage per encoder stage, from
\* the coarsest level to the finest; the stage for level i is handed level i as
\* the fine set and level i+1, coordinates and features alike, as the coarse
\* set, together with the auxiliary prediction the preceding step produced on
\* that coarse level.
C12_DecoderMirrorsEncoder ==
    /\ DecoderRunning =>
          /\ xdec.level = CoarseLevel
          /\ Len(preds) = net.stages - CoarseLevel + 1
          /\ Last(preds).n = xdec.n
    /\ pc = "returned" => Len(preds) - 1 = net.stages

\* feature then coordinate of the input point at index i
PointRow(i) == IF grouper.use_xyz THEN At(points, i) \o At(xyz, i) ELSE At(points, i)
\* the grouped tensor when every slot (s, k) holds the feature and the
\* coordinate of the one input point idx[s][k], and the anchor is the feature
\* and the coordinate of the one input point fps_idx[s]
CoIndexedGrouped ==
    LET raw == [s \in 1..Len(idx) |-> [k \in 1..Len(idx[s]) |-> PointRow(idx[s][k])]]
        anchor_feat == [s \in 1..Len(fps_idx) |-> At(points, fps_idx[s])]
        anchor_xyz == [s \in 1..Len(fps_idx) |-> At(xyz, fps_idx[s])]
    IN  IF grouper.normalize = None
        THEN [s \in 1..Len(raw) |-> [k \in 1..Len(raw[s]) |-> FxVec(raw[s][k])]]
        ELSE GroupNormalize(grouper, raw, GroupMean(grouper, raw, anchor_feat, anchor_xyz))

\* C16: in what a LocalGrouper.forward call returns, the coordinate of every
\* centroid s is the input coordinate at fps_idx[s] and the feature broadcast
\* to its neighbours is the input feature at the same fps_idx[s]; in every
\* neighbour slot (s, k) the grouped feature and the grouped coordinate are
\* those of the same input point idx[s][k].
C16_CoIndexed ==
    GrouperReturned =>
        /\ Len(new_xyz) = Len(fps_idx)
        /\ Len(new_points) = Len(fps_idx)
        /\ \A s \in 1..Len(fps_idx) : new_xyz[s] = At(xyz, fps_idx[s])
        /\ LET grouped == CoIndexedGrouped
           IN  \A s \in 1..Len(fps_idx) : \A k \in 1..Len(idx[s]) :
                   new_points[s][k] = grouped[s][k] \o FxVec(At(points, fps_idx[s]))

\* a call has returned two neighbours of one centroid that differ in both
\* coordinate and feature, with the coordinates part of the grouped tensor
C16_Witness ==
    /\ pc = "g_done"
    /\ grouper.use_xyz
    /\ grouper.normalize = "anchor"
    /\ Len(idx[1]) = 2
    /\ At(xyz, idx[1][1]) # At(xyz, idx[1][2])
    /\ At(points, idx[1][1]) # At(points, idx[1][2])
    /\ ~HasNaN(new_points[1][1])

(***************************************************************************)
(* SpecAlias: one forward pass of PointMLP, lines 404-456, at the level of *)
(* tensor storages.  A tensor is the identifier of its storage; heap holds *)
(* for every storage the number of in-place writes it has received.  Every *)
(* module is the list of the tensor operations it applies in order to its  *)
(* running tensor; the other operands of an operation are only read.       *)
(* Operations that may hand back their input (reshape, contiguous, long,   *)
(* Dropout in evaluation mode) are taken to alias it.                      *)
(***************************************************************************)
MaxBlocks == 2

\* what an operation does to storage: writes its input, aliases it, or allocates
OpKind(op, training) ==
    IF op \in {"ReLU(inplace=True)", "F.relu(inplace=True)", "+=", "setitem"}
    THEN "inplace"
    ELSE IF op \in {"permute", "view", "reshape", "slice", "contiguous", "long", "unsqueeze"}
    THEN "view"
    ELSE IF op = "Dropout" THEN (IF training THEN "alloc" ELSE "view")
    ELSE "alloc"

\* the running tensor t after the operations ops, applied in order, and the
\* heap they leave: an allocating operation makes a new storage the running
\* tensor, an in-place operation writes to the storage of the running tensor
Run(ops, h, t, training) ==
    LET kinds == [i \in 1..Len(ops) |-> OpKind(ops[i], training)]
        allocs == {i \in 1..Len(ops) : kinds[i] = "alloc"}
        n == Cardinality(allocs)
        \* the writes to the storage made by the k-th allocation (k = 0: to t)
        writes(k) == Cardinality({i \in 1..Len(ops) :
                         /\ kinds[i] = "inplace"
                         /\ Cardinality({a \in allocs : a < i}) = k})
    IN  [heap |-> [h EXCEPT ![t] = @ + writes(0)] \o [k \in 1..n |-> writes(k)],
         t |-> IF n = 0 THEN t ELSE Len(h) + n]

\* a list entry: the tensor and the version of its storage when it was appended
Ref(h, t) == [sid |-> t, ver |-> h[t]]

RECURSIVE Blocks(_, _)
Blocks(ops, n) == IF n = 0 THEN <<>> ELSE ops \o Blocks(ops, n - 1)

ConvBNReLU1DOps_preact == <<"ReLU(inplace=True)", "Conv1d", "BatchNorm1d">>

\* lines 165-169
ConvBNReLU1DOps == <<"Conv1d", "BatchNorm1d", "ReLU(inplace=True)">>
\* lines 178-183, 196-199, 202: net1, net2, + x, F.relu(.., inplace=True)
ConvBNReLURes1DOps ==
    <<"Conv1d", "BatchNorm1d", "ReLU(inplace=True)", "Conv1d", "BatchNorm1d",
      "add", "F.relu(inplace=True)">>
\* lines 222-231
PreExtractionOps(blocks) ==
    <<"permute", "reshape">> \o ConvBNReLU1DOps \o Blocks(ConvBNReLURes1DOps, blocks)
        \o <<"adaptive_max_pool1d", "view", "reshape", "permute">>
\* lines 249-250: an empty nn.Sequential returns its input
PosExtractionOps(blocks) == Blocks(ConvBNReLURes1DOps, blocks)
\* lines 20-24
SquareDistanceOps == <<"matmul", "mul", "+=", "+=">>
\* lines 55-67, 137: on xyz.contiguous()
FarthestPointSampleOps == <<"contiguous", "zeros", "setitem", "long">>
\* lines 145-158 on points: gather, cat, normalize, affine, cat
GrouperPointsOps ==
    <<"permute", "index_points", "cat", "sub", "div", "mul", "add", "cat">>
\* line 370 and line 371
FeatureOps ==
    ConvBNReLU1DOps \o <<"Dropout">> \o ConvBNReLU1DOps \o <<"Dropout">> \o ConvBNReLU1DOps
PredictOps == <<"Dropout">> \o ConvBNReLU1DOps \o <<"LogSoftmax", "permute">>
\* lines 289-298 on points2 (and on last_pred): gather, weight, sum
InterpolateOps == <<"permute", "index_points", "mul", "sum">>
\* lines 281, 307-311 on points1: cat, fuse, extraction
FuseOps(blocks) ==
    <<"permute", "cat", "permute">> \o ConvBNReLU1DOps \o PosExtractionOps(blocks)
\* lines 261-264, 314-316: one ConvBNReLU1D and one Dropout per mlp entry; the
\* mlp arguments of fp4..fp1, lines 383-386, have 4, 3, 2 and 2 entries
PredictionOps(j) == Blocks(ConvBNReLU1DOps \o <<"Dropout">>, <<4, 3, 2, 2>>[j])
\* line 448 on x_list[i]
GmpOps == ConvBNReLU1DOps \o <<"adaptive_max_pool1d">>
\* lines 449-454 on x1
ClassifierOps ==
    <<"cat">> \o ConvBNReLU1DOps \o <<"repeat", "cat", "Conv1d", "BatchNorm1d", "Dropout",
      "Conv1d", "LogSoftmax", "permute">>

InitAlias ==
    /\ pc = "al_built"
    /\ err = ""
    /\ \E a, b, c \in 0..MaxBlocks :
          cfg = [pre_blocks |-> Repeat(a, 4), pos_blocks |-> Repeat(b, 4),
                 de_blocks |-> Repeat(c, 4)]
    /\ inp \in [training : BOOLEAN]
    /\ heap = <<>>
    /\ net = <<>>
    /\ coords = <<>>
    /\ x_list = <<>>
    /\ indexs = <<>>
    /\ preds = <<>>
    /\ feats = <<>>
    /\ xdec = <<>>
    /\ output = <<>>
    /\ fp = <<>>
    /\ loop = <<>>
    /\ GeomIdle
    /\ GroupIdle

\* lines 405-411: the input is storage 1; coord is a view of it
AliasForwardCall ==
    /\ pc = "al_built"
    /\ LET coord == Run(<<"slice", "permute">>, <<0>>, 1, inp.training)
           x == Run(ConvBNReLU1DOps, coord.heap, 1, inp.training)
       IN  /\ heap' = x.heap
           /\ coords' = <<Ref(x.heap, coord.t)>>
           /\ x_list' = <<Ref(x.heap, x.t)>>
           /\ indexs' = <<>>
    /\ pc' = "al_enc"
    /\ UNCHANGED <<cfg, inp, preds, feats, xdec, output, geomVars, groupVars, net, fp, loop, err>>

\* lines 414-421: one encoder stage
AliasEncoderStage ==
    /\ pc = "al_enc"
    /\ Len(indexs) < 4
    /\ LET i == Len(indexs) + 1
           t == inp.training
           index == Run(FarthestPointSampleOps, heap, Last(coords).sid, t)
           coord == Run(<<"contiguous", "index_points">>, index.heap, Last(coords).sid, t)
           knn == Run(SquareDistanceOps \o <<"topk">>, coord.heap, coord.t, t)
           grouped == Run(GrouperPointsOps, knn.heap, Last(x_list).sid, t)
           x == Run(PreExtractionOps(cfg.pre_blocks[i]) \o PosExtractionOps(cfg.pos_blocks[i]),
                    grouped.heap, grouped.t, t)
       IN  /\ heap' = x.heap
           /\ coords' = Append(coords, Ref(x.heap, coord.t))
           /\ x_list' = Append(x_list, Ref(x.heap, x.t))
           /\ indexs' = Append(indexs, Ref(x.heap, index.t))
    /\ UNCHANGED <<pc, cfg, inp, preds, feats, xdec, output, geomVars, groupVars, net, fp, loop, err>>

\* lines 426-434
AliasDecoderHead ==
    /\ pc = "al_enc"
    /\ Len(indexs) = 4
    /\ LET feat == Run(FeatureOps, heap, Last(x_list).sid, inp.training)
           pred5 == Run(PredictOps, feat.heap, feat.t, inp.training)
       IN  /\ heap' = pred5.heap
           /\ xdec' = Last(x_list).sid
           /\ feats' = <<Ref(pred5.heap, feat.t)>>
           /\ preds' = <<Ref(pred5.heap, pred5.t)>>
    /\ pc' = "al_fp"
    /\ UNCHANGED <<cfg, inp, coords, x_list, indexs, output, geomVars, groupVars, net, fp, loop, err>>

\* lines 435-438: the j-th call, PointNetFeaturePropagation.forward
AliasFeaturePropagation ==
    /\ pc = "al_fp"
    /\ Len(preds) <= 4
    /\ LET j == Len(preds)
           t == inp.training
           dists == Run(SquareDistanceOps \o <<"sort", "slice", "add", "reciprocal", "div">>,
                        heap, At(coords, 4 - j).sid, t)
           ipoints == Run(InterpolateOps, dists.heap, xdec, t)
           ipreds == Run(Tail(InterpolateOps), ipoints.heap, Last(preds).sid, t)
           new_points_ == Run(FuseOps(cfg.de_blocks[j]), ipreds.heap, At(x_list, 4 - j).sid, t)
           feat == Run(PredictionOps(j), new_points_.heap, new_points_.t, t)
           pred == Run(ConvBNReLU1DOps \o <<"permute">>, feat.heap, feat.t, t)
       IN  /\ heap' = pred.heap
           /\ xdec' = new_points_.t
           /\ feats' = Append(feats, Ref(pred.heap, feat.t))
           /\ preds' = Append(preds, Ref(pred.heap, pred.t))
    /\ UNCHANGED <<pc, cfg, inp, coords, x_list, indexs, output, geomVars, groupVars, net, fp, loop, err>>

\* lines 446-448: the global max pooling of x_list[i], for i from k upward
RECURSIVE GmpLoop(_, _, _)
GmpLoop(h, k, training) ==
    IF k > Len(x_list) THEN h
    ELSE GmpLoop(Run(GmpOps, h, x_list[k].sid, training).heap, k + 1, training)

\* lines 440-456
AliasClassify ==
    /\ pc = "al_fp"
    /\ Len(preds) = 5
    /\ LET out == Run(ClassifierOps, GmpLoop(heap, 1, inp.training), xdec, inp.training)
       IN  /\ heap' = out.heap
           /\ output' = Ref(out.heap, out.t)
    /\ pc' = "al_returned"
    /\ UNCHANGED <<cfg, inp, coords, x_list, indexs, preds, feats, xdec, geomVars, groupVars, net, fp, loop, err>>

NextAlias ==
    \/ AliasForwardCall
    \/ AliasEncoderStage
    \/ AliasDecoderHead
    \/ AliasFeaturePropagation
    \/ AliasClassify

SpecAlias == InitAlias /\ [][NextAlias]_vars

AliasPassRunning == pc \in {"al_enc", "al_fp", "al_returned"}
Unchanged(ref) == heap[ref.sid] = ref.ver

\* C13: once a pyramid level (coordinates, features, sampling index) has been
\* appended, no later step of the forward pass writes to its storage: at every
\* later point of the pass, and so when the decoder's skip connection reads it,
\* each level holds the values it held when it was appended.
C13_LevelsNeverMutated ==
    AliasPassRunning =>
        /\ \A i \in 1..Len(coords) : Unchanged(coords[i])
        /\ \A i \in 1..Len(x_list) : Unchanged(x_list[i])
        /\ \A i \in 1..Len(indexs) : Unchanged(indexs[i])

\* a pass has returned whose position blocks are empty, so that every feature
\* level is the very tensor PreExtraction returned, in evaluation mode, where
\* Dropout hands back its input, after in-place activations have run
C13_Witness ==
    /\ pc = "al_returned"
    /\ cfg.pos_blocks = <<0, 0, 0, 0>>
    /\ ~inp.training
    /\ Len(x_list) = 5
    /\ \E sid \in 1..Len(heap) : heap[sid] > 0

(***************************************************************************)
(* SpecGeomFar: the geometric primitives applied to point sets whose       *)
(* extent exceeds the square root of the initial value of the running      *)
(* distance array of farthest_point_sample.                                *)
(***************************************************************************)
FarPointDomain == {<<x, 0, 0>> : x \in {0, 31700, 32700}}
FarPointSets == UNION {[1..n -> FarPointDomain] : n \in 1..MaxN}

InitGeomFar ==
    /\ pc = "idle"
    /\ xyz \in FarPointSets
    /\ npoint = 0
    /\ centroids = <<>>
    /\ distance = <<>>
    /\ farthest = 0
    /\ fi = 0
    /\ nsample = 0
    /\ new_xyz = <<>>
    /\ sqrdists = <<>>
    /\ group_idx = <<>>
    /\ err = ""
    /\ ShapeIdle
    /\ GroupIdle
    /\ ExtIdle

SpecGeomFar == InitGeomFar /\ [][NextGeom]_vars

MinOf(S) == CHOOSE m \in S : \A x \in S : m <= x
\* the minimum squared distance of point p to the first m returned centroids
MinDistTo(p, m) == MinOf({PointDist(At(xyz, p), At(xyz, centroids[j])) : j \in 1..m})

\* C14: during and after a call of farthest_point_sample, every returned index
\* after the first is a point whose minimum squared distance to the centroids
\* returned before it is the largest among all N points, and the running
\* array holds for every point its minimum squared distance to the centroids
\* returned so far.
C14_FpsGreedyMaxMin ==
    (pc \in {"fps", "fps_done"} /\ fi >= 1) =>
        /\ \A i \in 2..fi : \A p \in Range0(Len(xyz)) :
              MinDistTo(centroids[i], i - 1) >= MinDistTo(p, i - 1)
        /\ \A p \in Range0(Len(xyz)) : At(distance, p) = MinDistTo(p, fi)

(***************************************************************************)
(* SpecInterp: the interpolation of PointNetFeaturePropagation.forward,    *)
(* lines 283-298, on one batch element, by value.  Weights are exact       *)
(* fractions: with D = (d + eps) / eps for the selected distances, the     *)
(* weight of neighbour k is the product of the other D over the sum of     *)
(* these products.                                                         *)
(***************************************************************************)
MaxCoarse == 4
\* 1 / 1e-8, line 293, scaled to keep the products of three D within 32 bits
EpsInverse == 100

ChannelRows(n) == [1..n -> {<<v>> : v \in {0, 1}}]
InterpRank(p, f, l) == 2 * PointRank(p, f) + l[1]
\* the coarse levels of n points with their features and predictions; the
\* interpolation does not depend on the order of the coarse points, so one
\* order stands for all
CoarseInputs(n) ==
    {in \in [xyz2 : [1..n -> PointDomain], points2 : ChannelRows(n), last_pred : ChannelRows(n)] :
        \A i \in 1..(n - 1) :
            InterpRank(in.xyz2[i], in.points2[i], in.last_pred[i])
                <= InterpRank(in.xyz2[i + 1], in.points2[i + 1], in.last_pred[i + 1])}

\* line 290-291: the first m positions of an ascending sort of row; equal
\* distances come in any order
SortedFirst(row, m) ==
    {s \in TopKSmallest(row, m) :
        \A a, b \in 1..Len(s) : a < b => At(row, s[a]) <= At(row, s[b])}

\* line 293, in units of eps
Recip(d) == d * EpsInverse + 1

RECURSIVE ProdSeq(_)
ProdSeq(q) == IF q = <<>> THEN 1 ELSE Head(q) * ProdSeq(Tail(q))

\* lines 293-295 for one fine point: numerators and common denominator
InterpWeight(ds) ==
    LET num == [k \in 1..Len(ds) |->
                   ProdSeq([i \in 1..Len(ds) |-> IF i = k THEN 1 ELSE Recip(ds[i])])]
    IN  [num |-> num, den |-> SumSeq(num)]

\* lines 296, 298 for one fine point: sum over the neighbours of value * weight
WeightedSum(data, ix, w) ==
    LET g == index_points(data, ix)
    IN  [num |-> [c \in 1..Len(g[1]) |-> SumSeq([k \in 1..Len(ix) |-> g[k][c] * w.num[k]])],
         den |-> w.den]

\* weight.view(B, N, 3, 1) on a tensor of B * N * min(3, S) values
WeightViewRaises(s2) == s2 < 3

InitInterp ==
    /\ pc = "fp_idle"
    /\ err = ""
    /\ \E p1 \in PointDomain, n \in 1..MaxCoarse :
          \E in \in CoarseInputs(n) :
              fp = [xyz1 |-> <<p1>>, xyz2 |-> in.xyz2, points2 |-> in.points2,
                    last_pred |-> in.last_pred,
                    dists |-> <<>>, idx |-> <<>>, weight |-> <<>>,
                    interpolated_points |-> <<>>, interpolated_preds |-> <<>>]
    /\ heap = <<>>
    /\ loop = <<>>
    /\ GeomIdle
    /\ GroupIdle
    /\ ShapeIdle

\* lines 283-295: distances, the three first of the sort, weights
FpWeights ==
    /\ pc = "fp_idle"
    /\ LET d == square_distance(fp.xyz1, fp.xyz2)
           m == Min2(3, Len(fp.xyz2))
           sorted == [n \in 1..Len(d) |-> SortedFirst(d[n], m)]
       IN  \E ix \in [1..Len(d) -> UNION {sorted[n] : n \in 1..Len(d)}] :
              /\ \A n \in 1..Len(d) : ix[n] \in sorted[n]
              /\ LET ds == [n \in 1..Len(d) |-> [k \in 1..m |-> At(d[n], ix[n][k])]]
                 IN  fp' = [fp EXCEPT !.dists = ds, !.idx = ix,
                                      !.weight = [n \in 1..Len(d) |-> InterpWeight(ds[n])]]
    /\ pc' = "fp_weights"
    /\ UNCHANGED <<err, heap, loop, geomVars, groupVars, shapeVars>>

\* lines 296-298: interpolated_points and interpolated_preds
FpInterpolate ==
    /\ pc = "fp_weights"
    /\ IF WeightViewRaises(Len(fp.xyz2))
       THEN /\ pc' = "fp_raised"
            /\ err' = "view: shape [B, N, 3, 1] is invalid for input of this size"
            /\ UNCHANGED fp
       ELSE /\ pc' = "fp_done"
            /\ fp' = [fp EXCEPT
                        !.interpolated_points =
                            [n \in 1..Len(fp.idx) |->
                                WeightedSum(fp.points2, fp.idx[n], fp.weight[n])],
                        !.interpolated_preds =
                            [n \in 1..Len(fp.idx) |->
                                WeightedSum(fp.last_pred, fp.idx[n], fp.weight[n])]]
            /\ UNCHANGED err
    /\ UNCHANGED <<heap, loop, geomVars, groupVars, shapeVars>>

NextInterp ==
    \/ FpWeights
    \/ FpInterpolate

SpecInterp == InitInterp /\ [][NextInterp]_vars

FpEntered == pc \in {"fp_weights", "fp_done", "fp_raised"}
CoarseDist(n, j) == PointDist(fp.xyz1[n], At(fp.xyz2, j))
Picked(n) == {fp.idx[n][k] : k \in 1..Len(fp.idx[n])}
\* the sum over the picked neighbours of value * weight numerator, one channel
Blend(data, n) ==
    SumSeq([k \in 1..Len(fp.idx[n]) |-> At(data, fp.idx[n][k])[1] * fp.weight[n].num[k]])

\* C15: for every coarse level size, a Feature Propagation stage interpolates:
\* for every fine point it uses exactly 3 distinct coarse points, no other
\* coarse point being nearer; their weights are non-negative, proportional to
\* 1/(distance + eps) and sum to 1; the features and the auxiliary prediction
\* are blended with these same indices and weights.
C15_ThreeNearestInterpolation ==
    FpEntered =>
        /\ pc # "fp_raised"
        /\ \A n \in 1..Len(fp.idx) :
              /\ Cardinality(Picked(n)) = 3
              /\ \A j \in Picked(n), o \in Range0(Len(fp.xyz2)) \ Picked(n) :
                    CoarseDist(n, j) <= CoarseDist(n, o)
              /\ \A k \in 1..Len(fp.idx[n]) : fp.weight[n].num[k] >= 0
              /\ SumSeq(fp.weight[n].num) = fp.weight[n].den
              /\ \A a, b \in 1..Len(fp.idx[n]) :
                    fp.weight[n].num[a] * Recip(CoarseDist(n, fp.idx[n][a]))
                        = fp.weight[n].num[b] * Recip(CoarseDist(n, fp.idx[n][b]))
        /\ pc = "fp_done" =>
              \A n \in 1..Len(fp.idx) :
                  /\ fp.interpolated_points[n] =
                        [num |-> <<Blend(fp.points2, n)>>, den |-> fp.weight[n].den]
                  /\ fp.interpolated_preds[n] =
                        [num |-> <<Blend(fp.last_pred, n)>>, den |-> fp.weight[n].den]

\* the same with the coarse level sizes below 3 set aside
C15_AtLeastThreeCoarse ==
    (FpEntered /\ Len(fp.xyz2) >= 3) => C15_ThreeNearestInterpolation

(***************************************************************************)
(* SpecPyramid: the encoder loop of PointMLP.forward, lines 409-421, with  *)
(* the coordinates followed by value.  The features are followed by their  *)
(* point count only; of the feature path only the failure of topk is kept, *)
(* so every coordinate pyramid the encoder can build is built here.        *)
(***************************************************************************)
\* the input point sets of n pairwise different points; sampling does not
\* depend on the order of the input points, so one order stands for all
PyramidInputs(n) ==
    {q \in [1..n -> PointDomain] :
        \A i \in 1..(n - 1) : PointRank(q[i], <<0>>) < PointRank(q[i + 1], <<0>>)}

\* lines 343-354: the groups argument of each stage's LocalGrouper
Groups(c) == [i \in 1..Len(c.reducers) |-> AnchorPoints(c, i)]

\* line 59: torch.randint(0, N) on an empty level
FpsRaises(n) == n = 0

InitPyramid ==
    /\ pc = "py_built"
    /\ err = ""
    /\ \E p \in 1..MaxN, k \in {1, 2}, n \in {1, 2} :
          \E r \in [1..n -> {1, 2}] :
              /\ cfg = [points |-> p, reducers |-> r, k_neighbors |-> Repeat(k, n)]
              /\ net = [stages |-> n, kneighbors |-> Repeat(k, n),
                        groups |-> Groups([points |-> p, reducers |-> r])]
    /\ \E n \in 1..MaxN : inp \in PyramidInputs(n)
    /\ coords = <<>>
    /\ x_list = <<>>
    /\ indexs = <<>>
    /\ preds = <<>>
    /\ feats = <<>>
    /\ xdec = <<>>
    /\ output = <<>>
    /\ GeomIdle
    /\ GroupIdle
    /\ ExtIdle

\* lines 405-411
PyramidForwardCall ==
    /\ pc = "py_built"
    /\ coords' = <<inp>>
    /\ x_list' = <<Len(inp)>>
    /\ indexs' = <<>>
    /\ pc' = "py_enc"
    /\ UNCHANGED <<err, geomVars, groupVars, extVars,
                   cfg, net, inp, preds, feats, xdec, output>>

\* lines 414-421: one encoder stage; LocalGrouper.forward lines 137-142
PyramidStage ==
    /\ pc = "py_enc"
    /\ Len(indexs) < net.stages
    /\ LET i == Len(indexs) + 1
           coord == Last(coords)
       IN  IF FpsRaises(Len(coord))
           THEN /\ pc' = "py_raised"
                /\ err' = "randint: from must be less than to"
                /\ UNCHANGED <<coords, x_list, indexs>>
           ELSE \E index \in farthest_point_sample(coord, net.groups[i]) :
                   IF KnnRaises(net.kneighbors[i], Len(coord))
                   THEN /\ pc' = "py_raised"
                        /\ err' = "topk: selected index k out of range"
                        /\ UNCHANGED <<coords, x_list, indexs>>
                   ELSE /\ coords' = Append(coords, index_points(coord, index))
                        /\ x_list' = Append(x_list, Len(index))
                        /\ indexs' = Append(indexs, index)
                        /\ UNCHANGED <<pc, err>>
    /\ UNCHANGED <<geomVars, groupVars, extVars, cfg, net, inp, preds, feats, xdec, output>>

\* line 426: the loop is over
PyramidEncoded ==
    /\ pc = "py_enc"
    /\ Len(indexs) = net.stages
    /\ pc' = "py_encoded"
    /\ UNCHANGED <<err, coords, x_list, indexs, geomVars, groupVars, extVars,
                   cfg, net, inp, preds, feats, xdec, output>>

NextPyramid ==
    \/ PyramidForwardCall
    \/ PyramidStage
    \/ PyramidEncoded

SpecPyramid == InitPyramid /\ [][NextPyramid]_vars

PyramidStarted == pc \in {"py_enc", "py_encoded", "py_raised"}
PointsOf(level) == {level[j] : j \in 1..Len(level)}

\* C17: after any number of encoder stages, every coordinate of level i+1 is
\* the coordinate of level i at the position the stage's sampling index gives
\* (coords[i+1][j] = coords[i][indexs[i][j]]), level 0 is the input, and so the
\* points of each level are among those of the level before and of the input.
C17_NestedLevels ==
    PyramidStarted =>
        /\ Len(coords) = Len(indexs) + 1
        /\ coords[1] = inp
        /\ \A i \in 1..Len(indexs) :
              /\ Len(coords[i + 1]) = Len(indexs[i])
              /\ \A j \in 1..Len(indexs[i]) :
                    /\ indexs[i][j] \in Range0(Len(coords[i]))
                    /\ coords[i + 1][j] = At(coords[i], indexs[i][j])
              /\ PointsOf(coords[i + 1]) \subseteq PointsOf(coords[i])
              /\ PointsOf(coords[i + 1]) \subseteq PointsOf(inp)

\* two stages have run on three distinct points, the first keeping two of them
\* and the second keeping the one at position 1 of the first stage's level
C17_Witness ==
    /\ pc = "py_encoded"
    /\ Len(indexs) = 2
    /\ Cardinality(PointsOf(inp)) = 3
    /\ Len(coords[2]) = 2
    /\ indexs[2] = <<1>>
    /\ indexs[1][2] # 1

(***************************************************************************)
(* SpecTrain: train() of main.py, lines 86-206.  Scores are thousandths    *)
(* (the three decimals of the formatted strings); a variable that is not   *)
(* bound yet is the empty sequence.                                        *)
(***************************************************************************)
MaxEpochs == 2
MaxBatches == 2

\* main.py line 90: PointMLP() with the defaults of model.py lines 327-332
DefaultNet == Config(13, 1024, 32, 4, 2, 4, 4, 4, 4, 4, 4, 4)

\* model.py lines 103, 142, 416: stage i asks topk for k_neighbors[i] of the
\* points of the level before it
ForwardKnnRaises(c, n) ==
    \E i \in 1..Len(c.k_neighbors) :
        KnnRaises(c.k_neighbors[i], IF i = 1 THEN n ELSE AnchorPoints(c, i - 1))

\* model.py line 456, main.py lines 146, 180: outputs is a tuple
OutputsIsTuple == TRUE

\* main.py lines 144-146 and 179-180: net(points), outputs.contiguous()
BatchError(n) ==
    IF ForwardKnnRaises(DefaultNet, n) THEN "topk: selected index k out of range"
    ELSE IF OutputsIsTuple THEN "AttributeError: tuple has no attribute contiguous"
    ELSE ""

InitTrain ==
    /\ pc = "tr_idle"
    /\ err = ""
    /\ \E e \in 0..MaxEpochs, a \in 0..MaxBatches, b \in 0..MaxBatches, n \in {1024, 4096} :
          loop = [epochs |-> e, train_len |-> a, test_len |-> b, num_points |-> n,
                  epoch |-> 0, begun |-> 0, batch |-> 0, maxIOU |-> 0, iou_val |-> <<>>,
                  iou_vals |-> <<>>, latest_writes |-> 0, best_writes |-> {},
                  logged |-> 0]
    /\ heap = <<>>
    /\ fp = <<>>
    /\ GeomIdle
    /\ GroupIdle
    /\ ShapeIdle

\* lines 88-120: network, loaders, optimizer, folder, log, maxIOU = 0.0
TrainSetup ==
    /\ pc = "tr_idle"
    /\ loop' = [loop EXCEPT !.maxIOU = 0]
    /\ pc' = "tr_epoch"
    /\ UNCHANGED <<err, heap, fp, geomVars, groupVars, shapeVars>>

\* lines 123-135: the next epoch begins
EpochBegin ==
    /\ pc = "tr_epoch"
    /\ loop.epoch < loop.epochs
    /\ loop' = [loop EXCEPT !.begun = @ + 1, !.batch = 0]
    /\ pc' = "tr_train"
    /\ UNCHANGED <<err, heap, fp, geomVars, groupVars, shapeVars>>

\* lines 136-163: one training batch
TrainBatch ==
    /\ pc = "tr_train"
    /\ loop.batch < loop.train_len
    /\ IF BatchError(loop.num_points) # ""
       THEN /\ pc' = "tr_raised"
            /\ err' = BatchError(loop.num_points)
            /\ UNCHANGED loop
       ELSE /\ loop' = [loop EXCEPT !.batch = @ + 1]
            /\ UNCHANGED <<pc, err>>
    /\ UNCHANGED <<heap, fp, geomVars, groupVars, shapeVars>>

\* lines 165-172: the training loader is exhausted, validation begins
ValidBegin ==
    /\ pc = "tr_train"
    /\ loop.batch = loop.train_len
    /\ loop' = [loop EXCEPT !.batch = 0]
    /\ pc' = "tr_valid"
    /\ UNCHANGED <<err, heap, fp, geomVars, groupVars, shapeVars>>

\* lines 173-194: one validation batch
ValidBatch ==
    /\ pc = "tr_valid"
    /\ loop.batch < loop.test_len
    /\ IF BatchError(loop.num_points) # ""
       THEN /\ pc' = "tr_raised"
            /\ err' = BatchError(loop.num_points)
            /\ UNCHANGED loop
       ELSE /\ \E v \in {0, 500, 1000} : loop' = [loop EXCEPT !.batch = @ + 1, !.iou_val = <<v>>]
            /\ UNCHANGED <<pc, err>>
    /\ UNCHANGED <<heap, fp, geomVars, groupVars, shapeVars>>

\* line 197: state_dict.pth
SaveLatest ==
    /\ pc = "tr_valid"
    /\ loop.batch = loop.test_len
    /\ loop' = [loop EXCEPT !.latest_writes = @ + 1]
    /\ pc' = "tr_compare"
    /\ UNCHANGED <<err, heap, fp, geomVars, groupVars, shapeVars>>

\* lines 198-204: the best checkpoint, maxIOU, the log line
CompareBest ==
    /\ pc = "tr_compare"
    /\ IF loop.iou_val = <<>>
       THEN /\ pc' = "tr_raised"
            /\ err' = "NameError: iou_val"
            /\ UNCHANGED loop
       ELSE /\ loop' = [loop EXCEPT
                          !.best_writes = IF loop.maxIOU < loop.iou_val[1]
                                          THEN @ \cup {loop.epoch + 1} ELSE @,
                          !.maxIOU = IF loop.maxIOU < loop.iou_val[1]
                                     THEN loop.iou_val[1] ELSE @,
                          !.iou_vals = Append(@, loop.iou_val[1]),
                          !.logged = @ + 1,
                          !.epoch = @ + 1]
            /\ pc' = "tr_epoch"
            /\ UNCHANGED err
    /\ UNCHANGED <<heap, fp, geomVars, groupVars, shapeVars>>

\* line 206: range(args.epochs) is exhausted
TrainReturn ==
    /\ pc = "tr_epoch"
    /\ loop.epoch = loop.epochs
    /\ pc' = "tr_returned"
    /\ UNCHANGED <<err, loop, heap, fp, geomVars, groupVars, shapeVars>>

NextTrain ==
    \/ TrainSetup
    \/ EpochBegin
    \/ TrainBatch
    \/ ValidBegin
    \/ ValidBatch
    \/ SaveLatest
    \/ CompareBest
    \/ TrainReturn

SpecTrain == InitTrain /\ [][NextTrain]_vars

TrainOver == pc \in {"tr_raised", "tr_returned"}
SetMax(S) == CHOOSE m \in S : \A v \in S : v <= m
\* the best validation score of the first e completed epochs, 0 when there is none
BestOf(e) == SetMax({0} \cup {loop.iou_vals[i] : i \in 1..e})

\* C18: the tracked best score is the maximum of the validation scores of the
\* epochs completed so far; every epoch the loop has run wrote the latest
\* checkpoint; the best checkpoint was written in exactly the epochs whose
\* validation score is strictly greater than those of all earlier epochs.
C18_BestScoreTracking ==
    /\ pc # "tr_idle" => loop.maxIOU = BestOf(Len(loop.iou_vals))
    /\ TrainOver => loop.latest_writes = loop.begun
    /\ \A e \in 1..Len(loop.iou_vals) :
          e \in loop.best_writes <=> loop.iou_vals[e] > BestOf(e - 1)

====
